---- MODULE Spec2Model ----
(***************************************************************************)
(* SolarScape: the sun-position estimator (utils/sunPosition.ts), the      *)
(* building selection and colouring (utils/buildingUtils.ts), the shadow   *)
(* and PV estimator (utils/shadowCalculate.ts) and the SolarScene          *)
(* component that drives them (components/SolarScene.tsx).                 *)
(*                                                                         *)
(* Numbers.  JavaScript numbers are modelled as exact rationals            *)
(* [n |-> numerator, d |-> denominator] in lowest terms with d > 0, plus   *)
(* NaN = 0/0 and the infinities 1/0 and -1/0.  Floating-point rounding is  *)
(* not modelled.  Angles are modelled by their cosine and sine in fifths,  *)
(* [c |-> 5 cos, s |-> 5 sin] with c*c + s*s = 25.                         *)
(***************************************************************************)
EXTENDS Integers, Sequences, FiniteSets, TLC

(***************************************************************************)
(* Bounds of the model.                                                    *)
(***************************************************************************)
\* rays cast per centroid in the scene model (the code's default is 50)
NumRays == 2
\* longest sample count tried on isPointInShadow alone
MaxRays == 3
\* the WebGLRenderers a run of the useThree hook may create
MaxRenderers == 3

(***************************************************************************)
(* Rational arithmetic for JavaScript numbers.                             *)
(***************************************************************************)
Abs(x) == IF x < 0 THEN -x ELSE x

RECURSIVE GCD(_, _)
GCD(a, b) == IF b = 0 THEN a ELSE GCD(b, a % b)

Sign(x) == IF x < 0 THEN -1 ELSE IF x > 0 THEN 1 ELSE 0

\* the number n/d (d = 0 gives NaN for n = 0, else an infinity)
Rat(n, d) ==
  IF d = 0 THEN [n |-> Sign(n), d |-> 0]
  ELSE LET g == GCD(Abs(n), Abs(d))
           sg == Sign(d)
       IN [n |-> (sg * n) \div g, d |-> (sg * d) \div g]

NaN == [n |-> 0, d |-> 0]
PosInf == [n |-> 1, d |-> 0]
NegInf == [n |-> -1, d |-> 0]
Zero == Rat(0, 1)
One == Rat(1, 1)

IsNaN(x) == x.d = 0 /\ x.n = 0
IsFinite(x) == x.d > 0

\* x + y, x - y, x * y, x / y on finite numbers; NaN propagates
RAdd(x, y) == IF IsFinite(x) /\ IsFinite(y) THEN Rat(x.n * y.d + y.n * x.d, x.d * y.d) ELSE NaN
RSub(x, y) == IF IsFinite(x) /\ IsFinite(y) THEN Rat(x.n * y.d - y.n * x.d, x.d * y.d) ELSE NaN
RMul(x, y) == IF IsFinite(x) /\ IsFinite(y) THEN Rat(x.n * y.n, x.d * y.d) ELSE NaN
RDiv(x, y) == IF IsFinite(x) /\ IsFinite(y) THEN Rat(x.n * y.d, x.d * y.n) ELSE NaN

\* x < y as JavaScript compares: false when either side is NaN
RLt(x, y) ==
  IF IsNaN(x) \/ IsNaN(y) THEN FALSE
  ELSE IF IsFinite(x) /\ IsFinite(y) THEN x.n * y.d < y.n * x.d
  ELSE IF x.d = 0 /\ y.d = 0 THEN x.n < y.n
  ELSE IF x.d = 0 THEN x.n < 0
  ELSE y.n > 0

\* Number.prototype.toFixed(2): the number in hundredths, rounded half away
\* from zero, or the text "NaN"
ToFixed2(x) ==
  IF IsNaN(x) THEN "NaN"
  ELSE IF ~IsFinite(x) THEN "Infinity"
  ELSE Sign(x.n) * ((200 * Abs(x.n) + x.d) \div (2 * x.d))

(***************************************************************************)
(* State.                                                                  *)
(***************************************************************************)
VARIABLES
  loaded,               \* SolarScene: the GLTF model has been loaded
  dateInput,            \* value of the #dateInput element
  timeSlider,           \* value of the #timeSlider element
  ghiInput,             \* value of the #ghi element
  light,                \* the DirectionalLight: position, target, intensity
  sunPosition,          \* sunPosition.ts: the exported global {azimuth, altitude}
  material,             \* building.material of every building mesh
  originalMaterials,    \* buildingUtils.ts: the Map mesh -> saved material
  highlightedBuilding,  \* buildingUtils.ts: the process-wide selection slot
  colorAttr,            \* geometry.attributes.color of every building mesh
  infoCard,             \* the text and display of the #infoCard elements
  lastCall,             \* the last handler run, its inputs and what it returned
  hook                  \* useThree: one instance of the hook, the window and the renderers

vars == <<loaded, dateInput, timeSlider, ghiInput, light, sunPosition, material,
          originalMaterials, highlightedBuilding, colorAttr, infoCard, lastCall, hook>>

\* the values the estimators read from the document
Dom == [dateInput |-> dateInput, timeSlider |-> timeSlider, ghiInput |-> ghiInput]

\* everything the estimators and the click handler could write
World == [light |-> light, sunPosition |-> sunPosition, material |-> material,
          originalMaterials |-> originalMaterials,
          highlightedBuilding |-> highlightedBuilding,
          colorAttr |-> colorAttr, infoCard |-> infoCard]

\* the empty selection slot
Null == "null"
\* the null a function returns instead of a value
NullValue == [null |-> TRUE]

(***************************************************************************)
(* Document inputs.                                                        *)
(***************************************************************************)
\* values of <input type="date" id="dateInput">: cleared, a calendar date,
\* and a text that is no calendar date
DateValues == {"", "2024-06-21", "2024-13-01"}
\* values of <input type="range" id="timeSlider" min=0 max=1440>
TimeValues == {"0", "750"}
\* values of <input type="number" id="ghi">
GhiValues == {"", "7"}

\* parseInt on the slider values
ParseInt(str) == CASE str = "0" -> 0 [] str = "750" -> 750 [] OTHER -> -1

\* parseFloat on the GHI values
ParseFloat(str) == CASE str = "0" -> Rat(0, 1) [] str = "7" -> Rat(7, 1)
                     [] str = "5.5" -> Rat(55, 10) [] OTHER -> NaN

\* `${hours padded}:${minutes padded}` of the slider value
TimeInput(slider) ==
  [hours |-> ParseInt(slider) \div 60, minutes |-> ParseInt(slider) % 60]

\* new Date(text): whether the date part names a calendar date
DateIsValid(dateText) == dateText = "2024-06-21"

\* new Date(`${date}T${time}`): a time value, or Invalid Date
NewDateTime(dateText, time) ==
  IF DateIsValid(dateText) /\ time.hours \in 0..24 /\ time.minutes \in 0..59
  THEN [valid |-> TRUE, date |-> dateText, minutes |-> 60 * time.hours + time.minutes]
  ELSE [valid |-> FALSE]

\* new Date(date): midnight of a calendar date, or Invalid Date
NewDate(dateText) ==
  IF DateIsValid(dateText) THEN [valid |-> TRUE, date |-> dateText, minutes |-> 0]
  ELSE [valid |-> FALSE]

(***************************************************************************)
(* sunPosition.ts                                                          *)
(***************************************************************************)
NaNAngle == [c |-> 0, s |-> 0]
Angle(c, s) == [c |-> c, s |-> s]
AngleIsNaN(a) == a = NaNAngle
Cos(a) == IF AngleIsNaN(a) THEN NaN ELSE Rat(a.c, 5)
Sin(a) == IF AngleIsNaN(a) THEN NaN ELSE Rat(a.s, 5)
\* angle < 0 for an angle in [-pi/2, pi/2]; false for NaN
AngleNegative(a) == ~AngleIsNaN(a) /\ a.s < 0

\* azimuths and altitudes SunCalc can return (altitude in [-pi/2, pi/2])
Azimuths == {Angle(-3, 4)}
Altitudes == {Angle(3, -4), Angle(5, 0), Angle(4, 3)}

\* SunCalc.getPosition(date, LATITUDE, LONGITUDE): some position of the sun
\* for a time value, NaN angles for Invalid Date
SunCalcGetPosition(date) ==
  IF date.valid
  THEN {[azimuth |-> az, altitude |-> alt] : az \in Azimuths, alt \in Altitudes}
  ELSE {[azimuth |-> NaNAngle, altitude |-> NaNAngle]}

\* SunCalc.getTimes(date, ...): sunrise and sunset in minutes of the day
SunCalcGetTimes(date) ==
  IF date.valid THEN [sunrise |-> Rat(363, 1), sunset |-> Rat(1159, 1)]
  ELSE [sunrise |-> NaN, sunset |-> NaN]

\* getTotalDaytime: hours between sunrise and sunset
GetTotalDaytime(date) ==
  LET times == SunCalcGetTimes(date)
  IN RDiv(RSub(times.sunset, times.sunrise), Rat(60, 1))

radius == 1500

\* x, y, z of the light on the sphere of the given radius
LightVector(azimuth, altitude) ==
  [x |-> RMul(RMul(Rat(radius, 1), Cos(azimuth)), Cos(altitude)),
   y |-> RMul(Rat(radius, 1), Sin(altitude)),
   z |-> RMul(RMul(Rat(radius, 1), Sin(azimuth)), Cos(altitude))]

\* mutant: the light is also switched off with the sun on the horizon
SunIntensityAtHorizon(altitude) ==
  IF ~AngleIsNaN(altitude) /\ altitude.s <= 0 THEN 0 ELSE 5

\* the intensity the light gets for an altitude
SunIntensity(altitude) == IF AngleNegative(altitude) THEN 0 ELSE 5

\* whether updateSunPosition takes its early return
DateInputMissing(dom) == dom.dateInput = ""

\* updateSunPosition(light) with sunPos the position SunCalc returns:
\* the world after the call, the value returned, and whether alert() ran
UpdateSunPosition(w, dom, sunPos) ==
  IF DateInputMissing(dom)
  THEN [w |-> w, ret |-> NullValue, alert |-> TRUE]
  ELSE
    LET pos == LightVector(sunPos.azimuth, sunPos.altitude)
        w1 == [w EXCEPT !.light.position = pos]
        w2 == [w1 EXCEPT !.light.target = [x |-> Zero, y |-> Zero, z |-> Zero]]
        w3 == [w2 EXCEPT !.light.intensity = SunIntensity(sunPos.altitude)]
        w4 == [w3 EXCEPT !.sunPosition = [azimuth |-> sunPos.azimuth,
                                          altitude |-> sunPos.altitude]]
    IN [w |-> w4, ret |-> pos, alert |-> FALSE]

\* the date updateSunPosition hands to SunCalc
SunDate(dom) == NewDateTime(dom.dateInput, TimeInput(dom.timeSlider))

(***************************************************************************)
(* The scene: building meshes and what a ray can hit.                      *)
(***************************************************************************)
\* mesh.name of the meshes of the loaded model
Buildings == {"Mesh 1", "Mesh 2"}
\* the meshes calculateRooftopArea is tried on
Meshes == Buildings \cup {"Mesh 3", "Mesh 4"}

\* geometry.attributes.position (one <<x, y, z>> per vertex) and
\* geometry.index (vertex numbers from 0, three per triangle):
\*   Mesh 1: a horizontal roof triangle and a wall triangle, area 4 each
\*   Mesh 2: a mesh without an index
\*   Mesh 3 (not in the scene): a slanted triangle of area 5/2 and a
\*           zero-area triangle
\*   Mesh 4 (not in the scene): two zero-area triangles, one with collinear
\*           and one with repeated vertices
Geometry(b) ==
  CASE b = "Mesh 1" ->
         [position |-> << <<0, 2, 0>>, <<4, 2, 0>>, <<0, 2, 2>>, <<0, 0, 0>>, <<4, 0, 0>> >>,
          index |-> [present |-> TRUE, array |-> <<0, 2, 1, 3, 4, 1>>]]
    [] b = "Mesh 3" ->
         [position |-> << <<0, 0, 0>>, <<1, 0, 0>>, <<0, 4, 3>>, <<2, 0, 0>> >>,
          index |-> [present |-> TRUE, array |-> <<0, 1, 2, 0, 1, 3>>]]
    [] b = "Mesh 4" ->
         [position |-> << <<0, 0, 0>>, <<1, 0, 0>>, <<2, 0, 0>> >>,
          index |-> [present |-> TRUE, array |-> <<0, 1, 2, 0, 0, 1>>]]
    [] OTHER ->
         [position |-> << <<0, 0, 0>>, <<2, 0, 0>>, <<0, 0, 2>> >>,
          index |-> [present |-> FALSE, array |-> << >>]]

\* number of triangles the face loop visits
NumFaces(geometry) ==
  IF geometry.index.present THEN Len(geometry.index.array) \div 3 ELSE 0

\* object.name of what a ray can hit: the sky dome 'Sky', the unnamed floor,
\* a mesh.  The intersections of the rays cast from one centroid in the
\* scene: the first k rays meet the floor before the sky, the others only
\* the sky
RaySamples ==
  { [i \in 1..NumRays |-> IF i <= k THEN <<"", "Sky">> ELSE <<"Sky">>] : k \in 0..NumRays }
\* the intersections a single ray can return
ProbeHitLists == { << >>, <<"Sky">>, <<"">>, <<"Mesh 1", "Sky">>, <<"Mesh 2", "", "Sky">> }

(***************************************************************************)
(* shadowCalculate.ts                                                      *)
(***************************************************************************)
\* the filter of isPointInShadow: unnamed objects count, 'Sky' does not
ValidIntersect(name) == IF name = "" THEN TRUE ELSE name # "Sky"

ValidIntersects(intersects) == SelectSeq(intersects, ValidIntersect)

\* mutant: a ray counts once for each of its valid intersections
RayCountPerHit(intersects) == Len(ValidIntersects(intersects))

\* what one ray adds to shadowedRays
RayCount(intersects) == IF Len(ValidIntersects(intersects)) > 0 THEN 1 ELSE 0

\* shadowedRays after the first i rays
RECURSIVE ShadowedRays(_, _)
ShadowedRays(rays, i) ==
  IF i = 0 THEN 0 ELSE ShadowedRays(rays, i - 1) + RayCount(rays[i])

\* isPointInShadow: rays[i] is what raycaster.intersectObject(scene, true)
\* returns for the i-th jittered ray from the point towards the light
IsPointInShadow(rays, numRays) ==
  RDiv(Rat(ShadowedRays(rays, numRays), 1), Rat(numRays, 1))

\* vector helpers of THREE.Vector3
VSub(u, v) == <<u[1] - v[1], u[2] - v[2], u[3] - v[3]>>
CrossVectors(u, v) ==
  <<u[2] * v[3] - u[3] * v[2], u[3] * v[1] - u[1] * v[3], u[1] * v[2] - u[2] * v[1]>>
LengthSq(v) == v[1] * v[1] + v[2] * v[2] + v[3] * v[3]
\* square root of the squares the meshes produce
ISqrt(n) == CHOOSE r \in 0..n : r * r <= n /\ n < (r + 1) * (r + 1)

\* THREE.Triangle.getArea: half the length of the cross product
CalculateTriangleArea(v1, v2, v3) ==
  Rat(ISqrt(LengthSq(CrossVectors(VSub(v3, v2), VSub(v1, v2)))), 2)

\* isVertical for the direction n of the normal: the angle to (0, 1, 0) is
\* within one degree of a right angle, sin(1 deg)^2 taken as 3046 / 10^7;
\* angleTo returns a right angle for the zero vector
IsVertical(n) ==
  IF LengthSq(n) = 0 THEN TRUE
  ELSE n[2] * n[2] * 10000000 < 3046 * LengthSq(n)

\* the vertices of face f (f from 1) and its vertex numbers
FaceOf(geometry, f) ==
  LET a == geometry.index.array[3 * f - 2]
      b == geometry.index.array[3 * f - 1]
      c == geometry.index.array[3 * f]
  IN [a |-> a, b |-> b, c |-> c,
      v1 |-> geometry.position[a + 1],
      v2 |-> geometry.position[b + 1],
      v3 |-> geometry.position[c + 1]]

\* mutant: the shadowed share of the face is paid instead of the lit share
BipvValueOfShadow(GHI, triangleArea, shadowFraction) ==
  RMul(RMul(RMul(GHI, triangleArea), shadowFraction), Rat(15, 100))

\* the per-face value of either branch
BipvValue(GHI, triangleArea, shadowFraction) ==
  RMul(RMul(RMul(GHI, triangleArea), RSub(One, shadowFraction)), Rat(15, 100))

\* the running totals before the first face
LoopStart ==
  [totalRooftopArea |-> Zero, totalVerticalArea |-> Zero,
   totalShadowFractionRooftop |-> Zero, totalShadowFractionVertical |-> Zero,
   bipvValues |-> << >>, shadowFractions |-> << >>]

\* mutant: the vertical branch adds its area to the rooftop total
VerticalBranchIntoRooftop(acc, face, GHI, triangleArea, shadowFraction) ==
  [acc EXCEPT
     !.totalRooftopArea = RAdd(@, triangleArea),
     !.totalShadowFractionVertical = RAdd(@, RMul(shadowFraction, triangleArea)),
     !.bipvValues = Append(@, [a |-> face.a, b |-> face.b, c |-> face.c,
                               bipvValue |-> RMul(RMul(RMul(GHI, triangleArea),
                                                       RSub(One, shadowFraction)),
                                                  Rat(15, 100)),
                               type |-> "Vertical"]),
     !.shadowFractions = Append(@, shadowFraction)]

\* the vertical branch of the loop body
VerticalBranch(acc, face, GHI, triangleArea, shadowFraction) ==
  [acc EXCEPT
     !.totalVerticalArea = RAdd(@, triangleArea),
     !.totalShadowFractionVertical = RAdd(@, RMul(shadowFraction, triangleArea)),
     !.bipvValues = Append(@, [a |-> face.a, b |-> face.b, c |-> face.c,
                               bipvValue |-> BipvValue(GHI, triangleArea, shadowFraction),
                               type |-> "Vertical"]),
     !.shadowFractions = Append(@, shadowFraction)]

\* the rooftop branch of the loop body
RooftopBranch(acc, face, GHI, triangleArea, shadowFraction) ==
  [acc EXCEPT
     !.totalRooftopArea = RAdd(@, triangleArea),
     !.totalShadowFractionRooftop = RAdd(@, RMul(shadowFraction, triangleArea)),
     !.bipvValues = Append(@, [a |-> face.a, b |-> face.b, c |-> face.c,
                               bipvValue |-> BipvValue(GHI, triangleArea, shadowFraction),
                               type |-> "Rooftop"]),
     !.shadowFractions = Append(@, shadowFraction)]

\* one iteration of the loop over the triangles
FaceStep(acc, geometry, f, GHI, rays) ==
  LET face == FaceOf(geometry, f)
      triangleArea == CalculateTriangleArea(face.v1, face.v2, face.v3)
      normal == CrossVectors(VSub(face.v2, face.v1), VSub(face.v3, face.v1))
      shadowFraction == IsPointInShadow(rays[f], NumRays)
  IN IF IsVertical(normal)
     THEN VerticalBranch(acc, face, GHI, triangleArea, shadowFraction)
     ELSE RooftopBranch(acc, face, GHI, triangleArea, shadowFraction)

\* the loop over the first n triangles
RECURSIVE FaceLoop(_, _, _, _)
FaceLoop(geometry, n, GHI, rays) ==
  IF n = 0 THEN LoopStart
  ELSE FaceStep(FaceLoop(geometry, n - 1, GHI, rays), geometry, n, GHI, rays)

\* updateInfoCard: the texts written into the info card, which is shown
UpdateInfoCard(w, buildingName, totalDaytime, totalArea, totalRooftopArea, totalShadowFraction, averageShadowFractionRooftop, totalPVValue, pvValueRooftop) ==
  [w EXCEPT !.infoCard =
     [buildingName |-> buildingName,
      totalDaytime |-> ToFixed2(totalDaytime),
      totalArea |-> ToFixed2(totalArea),
      rooftopArea |-> ToFixed2(totalRooftopArea),
      shadowFraction |-> ToFixed2(totalShadowFraction),
      shadowFractionRooftop |-> ToFixed2(averageShadowFractionRooftop),
      pvValue |-> ToFixed2(totalPVValue),
      pvValueRooftop |-> ToFixed2(pvValueRooftop),
      display |-> "block"]]

\* mutant: the weighted shadow sum is divided by the rooftop area only
AggregatesOverRooftop(acc, GHI) ==
  LET totalArea == RAdd(acc.totalRooftopArea, acc.totalVerticalArea)
      totalShadowFraction ==
        RDiv(RAdd(acc.totalShadowFractionRooftop, acc.totalShadowFractionVertical),
             acc.totalRooftopArea)
      totalPVValue ==
        RMul(RMul(RMul(GHI, totalArea), RSub(One, totalShadowFraction)), Rat(15, 100))
      averageShadowFractionRooftop == RMul(totalShadowFraction, Rat(1753, 10000))
      pvValueRooftop ==
        RMul(RMul(RMul(GHI, acc.totalRooftopArea),
                  RSub(One, averageShadowFractionRooftop)), Rat(15, 100))
  IN [totalArea |-> totalArea, totalRooftopArea |-> acc.totalRooftopArea,
      totalVerticalArea |-> acc.totalVerticalArea,
      totalShadowFraction |-> totalShadowFraction,
      averageShadowFractionRooftop |-> averageShadowFractionRooftop,
      totalPVValue |-> totalPVValue, pvValueRooftop |-> pvValueRooftop]

\* the aggregates computed after the loop
Aggregates(acc, GHI) ==
  LET totalArea == RAdd(acc.totalRooftopArea, acc.totalVerticalArea)
      totalShadowFraction ==
        RDiv(RAdd(acc.totalShadowFractionRooftop, acc.totalShadowFractionVertical),
             totalArea)
      totalPVValue ==
        RMul(RMul(RMul(GHI, totalArea), RSub(One, totalShadowFraction)), Rat(15, 100))
      averageShadowFractionRooftop == RMul(totalShadowFraction, Rat(1753, 10000))
      pvValueRooftop ==
        RMul(RMul(RMul(GHI, acc.totalRooftopArea),
                  RSub(One, averageShadowFractionRooftop)), Rat(15, 100))
  IN [totalArea |-> totalArea, totalRooftopArea |-> acc.totalRooftopArea,
      totalVerticalArea |-> acc.totalVerticalArea,
      totalShadowFraction |-> totalShadowFraction,
      averageShadowFractionRooftop |-> averageShadowFractionRooftop,
      totalPVValue |-> totalPVValue, pvValueRooftop |-> pvValueRooftop]

\* the GHI the estimator reads from the document
ReadGHI(dom) == ParseFloat(IF dom.ghiInput = "" THEN "5.5" ELSE dom.ghiInput)

\* mutant: the rooftop area is shown as the total area
PublishRooftopAsTotal(w, b, totalDaytime, agg) ==
  [w EXCEPT !.infoCard =
     [buildingName |-> IF b = "" THEN "Unknown Building" ELSE b,
      totalDaytime |-> ToFixed2(totalDaytime),
      totalArea |-> ToFixed2(agg.totalRooftopArea),
      rooftopArea |-> ToFixed2(agg.totalRooftopArea),
      shadowFraction |-> ToFixed2(agg.totalShadowFraction),
      shadowFractionRooftop |-> ToFixed2(agg.averageShadowFractionRooftop),
      pvValue |-> ToFixed2(agg.totalPVValue),
      pvValueRooftop |-> ToFixed2(agg.pvValueRooftop),
      display |-> "block"]]

\* what calculateRooftopArea does to the world once the totals are known
PublishAggregates(w, b, totalDaytime, agg) ==
  UpdateInfoCard(w, IF b = "" THEN "Unknown Building" ELSE b, totalDaytime,
                 agg.totalArea, agg.totalRooftopArea, agg.totalShadowFraction,
                 agg.averageShadowFractionRooftop, agg.totalPVValue,
                 agg.pvValueRooftop)

\* calculateRooftopArea(building, light, scene), rays[f][i] being the
\* intersections of the i-th ray cast from the centroid of triangle f:
\* the world after the call, the list returned, and in out (for the record)
\* the list with the GHI, shadow fractions and aggregates it computed
CalculateRooftopArea(w, dom, b, rays) ==
  LET GHI == ReadGHI(dom)
      totalDaytime == GetTotalDaytime(NewDate(dom.dateInput))
      geometry == Geometry(b)
  IN IF ~geometry.index.present
     THEN [w |-> w, ret |-> << >>, out |-> [ret |-> << >>, indexed |-> FALSE]]
     ELSE LET acc == FaceLoop(geometry, NumFaces(geometry), GHI, rays)
              agg == Aggregates(acc, GHI)
          IN [w |-> PublishAggregates(w, b, totalDaytime, agg),
              ret |-> acc.bipvValues,
              out |-> [ret |-> acc.bipvValues, indexed |-> TRUE, GHI |-> GHI,
                       totalDaytime |-> totalDaytime,
                       shadowFractions |-> acc.shadowFractions, aggregates |-> agg]]

(***************************************************************************)
(* buildingUtils.ts                                                        *)
(***************************************************************************)
\* new THREE.MeshStandardMaterial({ color }) as SolarScene and
\* highlightBuilding create them
WhiteMaterial == [color |-> "ffffff", vertexColors |-> FALSE]
HighlightMaterial == [color |-> "ffff00", vertexColors |-> FALSE]

\* Map.set and Map.delete on originalMaterials
MapSet(map, key, value) ==
  [k \in DOMAIN map \cup {key} |-> IF k = key THEN value ELSE map[k]]
MapDelete(map, key) == [k \in DOMAIN map \ {key} |-> map[k]]

\* highlightBuilding(building)
HighlightBuilding(w, building) ==
  LET w1 == IF building \notin DOMAIN w.originalMaterials
            THEN [w EXCEPT !.originalMaterials = MapSet(@, building, w.material[building])]
            ELSE w
  IN [w1 EXCEPT !.material[building] = HighlightMaterial]

\* mutant: the saved material is dropped without being put back
RevertHighlightDropsSaved(w, building) ==
  IF building \in DOMAIN w.originalMaterials
  THEN [w EXCEPT !.originalMaterials =
          [k \in DOMAIN w.originalMaterials \ {building} |-> w.originalMaterials[k]]]
  ELSE w

\* revertHighlight(building)
RevertHighlight(w, building) ==
  IF building \in DOMAIN w.originalMaterials
  THEN LET w1 == [w EXCEPT !.material[building] = w.originalMaterials[building]]
       IN [w1 EXCEPT !.originalMaterials = MapDelete(@, building)]
  ELSE w

\* mutant: the building hit is highlighted before the selection is reverted
SelectBuildingHighlightFirst(w, building) ==
  LET w1 == HighlightBuilding(w, building)
      w2 == IF w1.highlightedBuilding # Null
            THEN RevertHighlight(w1, w1.highlightedBuilding) ELSE w1
  IN [w2 EXCEPT !.highlightedBuilding = building]

\* lines 224-228 of onBuildingClick: revert the selection, highlight the
\* building hit, store it in the slot
SelectBuilding(w, building) ==
  LET w1 == IF w.highlightedBuilding # Null
            THEN RevertHighlight(w, w.highlightedBuilding) ELSE w
      w2 == HighlightBuilding(w1, building)
  IN [w2 EXCEPT !.highlightedBuilding = building]

\* THREE.Color as red, green, blue in [0, 1]
Color(r, g, b) == [r |-> r, g |-> g, b |-> b]
startColor == Color(Rat(255, 255), Rat(165, 255), Rat(0, 255))
endColor == Color(Rat(255, 255), Rat(69, 255), Rat(0, 255))

\* Color.lerp: this + (color - this) * alpha on each channel
Lerp(from, to, alpha) ==
  Color(RAdd(from.r, RMul(RSub(to.r, from.r), alpha)),
        RAdd(from.g, RMul(RSub(to.g, from.g), alpha)),
        RAdd(from.b, RMul(RSub(to.b, from.b), alpha)))

\* the ratio getColorForValue interpolates with
ColorRatio(value, min, max) == RDiv(RSub(value, min), RSub(max, min))

\* getColorForValue(value, min, max)
GetColorForValue(value, min, max) == Lerp(startColor, endColor, ColorRatio(value, min, max))

\* Math.min(...values) and Math.max(...values) over the first n values
RECURSIVE MathMin(_, _)
MathMin(values, n) ==
  IF n = 0 THEN PosInf
  ELSE LET rest == MathMin(values, n - 1)
           v == values[n].bipvValue
       IN IF IsNaN(v) \/ IsNaN(rest) THEN NaN ELSE IF RLt(v, rest) THEN v ELSE rest

RECURSIVE MathMax(_, _)
MathMax(values, n) ==
  IF n = 0 THEN NegInf
  ELSE LET rest == MathMax(values, n - 1)
           v == values[n].bipvValue
       IN IF IsNaN(v) \/ IsNaN(rest) THEN NaN ELSE IF RLt(rest, v) THEN v ELSE rest

\* new Float32Array(count * 3): one black colour per vertex (vertex 0 first)
ZeroColors(count) == [i \in 0..(count - 1) |-> Color(Zero, Zero, Zero)]

\* the forEach over the first n per-face values, later faces overwriting
RECURSIVE PaintFaces(_, _, _, _, _)
PaintFaces(colors, bipvValues, n, minBipv, maxBipv) ==
  IF n = 0 THEN colors
  ELSE LET before == PaintFaces(colors, bipvValues, n - 1, minBipv, maxBipv)
           v == bipvValues[n]
           color == GetColorForValue(v.bipvValue, minBipv, maxBipv)
       IN [before EXCEPT ![v.a] = color, ![v.b] = color, ![v.c] = color]

\* lines 231-254 of onBuildingClick: build the colour buffer, set it as the
\* geometry's colour attribute and switch the material to vertex colours
ColorBuilding(w, building, bipvValues) ==
  LET geometry == Geometry(building)
      colors == ZeroColors(Len(geometry.position))
      minBipv == MathMin(bipvValues, Len(bipvValues))
      maxBipv == MathMax(bipvValues, Len(bipvValues))
      painted == PaintFaces(colors, bipvValues, Len(bipvValues), minBipv, maxBipv)
      w1 == [w EXCEPT !.colorAttr[building] = [present |-> TRUE, array |-> painted]]
  IN [w1 EXCEPT !.material[building].vertexColors = TRUE]

\* the object raycaster.intersectObjects(buildings) reports first, or none
NoHit == "none"

\* mutant: a click that hits nothing clears the selection
OnBuildingClickDeselects(w, dom, hit, rays) ==
  IF hit = NoHit
  THEN [w |-> IF w.highlightedBuilding = Null THEN w
              ELSE [RevertHighlight(w, w.highlightedBuilding)
                      EXCEPT !.highlightedBuilding = Null],
        calc |-> NullValue]
  ELSE LET w3 == SelectBuilding(w, hit)
           calc == CalculateRooftopArea(w3, dom, hit, rays)
       IN [w |-> ColorBuilding(calc.w, hit, calc.ret), calc |-> calc.out]

\* onBuildingClick(event, camera, buildings, light, scene): hit is
\* intersects[0].object or NoHit, rays are the estimator's ray results
OnBuildingClick(w, dom, hit, rays) ==
  IF hit = NoHit
  THEN [w |-> w, calc |-> NullValue]
  ELSE LET w3 == SelectBuilding(w, hit)
           calc == CalculateRooftopArea(w3, dom, hit, rays)
       IN [w |-> ColorBuilding(calc.w, hit, calc.ret), calc |-> calc.out]

(***************************************************************************)
(* useThree.ts: the hook, the window it listens to and its renderers.      *)
(***************************************************************************)
\* rendererRef.current and the renderer a render returns before one exists
NoRenderer == 0
\* window.innerWidth and window.innerHeight
WindowSizes == { [width |-> 800, height |-> 600], [width |-> 1024, height |-> 768] }
\* the options a component passes: width, height, antialias, alpha
UseThreeOptions ==
  [width : {800, 1024}, height : {600, 768}, antialias : BOOLEAN, alpha : BOOLEAN]

\* no component uses the hook yet: no renderer was created (renderers are
\* numbered in the order of their creation), none is live, nothing listens
\* to 'resize'
HookStart ==
  [mounted |-> FALSE,
   options |-> [width |-> 800, height |-> 600, antialias |-> TRUE, alpha |-> FALSE],
   canvas |-> FALSE,
   rendererRef |-> NoRenderer,
   isInitialized |-> FALSE,
   cleanup |-> NoRenderer,
   returned |-> [renderer |-> NoRenderer, isInitialized |-> FALSE],
   created |-> 0,
   live |-> {},
   size |-> [width |-> 0, height |-> 0],
   listeners |-> {},
   window |-> [width |-> 800, height |-> 600]]

\* what a render of the hook returns: rendererRef.current and isInitialized
\* as they are during the render
ReturnValue(h) ==
  [h EXCEPT !.returned = [renderer |-> h.rendererRef, isInitialized |-> h.isInitialized]]

\* the function the effect returned, if it returned one (cleanup names the
\* handleResize of that run): it removes the listener and disposes of the
\* renderer in rendererRef
EffectCleanup(h) ==
  IF h.cleanup = NoRenderer THEN h
  ELSE LET h1 == [h EXCEPT !.listeners = @ \ {h.cleanup}, !.cleanup = NoRenderer]
       IN IF h1.rendererRef # NoRenderer
          THEN [h1 EXCEPT !.live = @ \ {h1.rendererRef}, !.rendererRef = NoRenderer]
          ELSE h1

\* the body of the effect (in a browser): nothing without a canvas or with
\* a renderer in rendererRef, else a new renderer of the size asked for, a
\* new 'resize' listener and setIsInitialized(true)
Effect(h, options) ==
  IF ~h.canvas THEN h
  ELSE IF h.rendererRef # NoRenderer THEN h
  ELSE LET id == h.created + 1
       IN [h EXCEPT !.rendererRef = id,
                    !.created = id,
                    !.live = @ \cup {id},
                    !.size = [width |-> options.width, height |-> options.height],
                    !.listeners = @ \cup {id},
                    !.isInitialized = TRUE,
                    !.cleanup = id]

\* one render of the component with the hook and what React does after it:
\* on the first render and when one of alpha, antialias, height, width
\* differs from the previous render, the cleanup of the previous run and
\* the effect; when the effect changed isInitialized, another render
UseThree(h, options, canvas, first) ==
  LET rendered == [ReturnValue(h) EXCEPT !.canvas = canvas, !.options = options]
      committed == IF first \/ options # h.options
                   THEN Effect(EffectCleanup(rendered), options)
                   ELSE rendered
  IN IF committed.isInitialized # rendered.isInitialized
     THEN ReturnValue(committed)
     ELSE committed

\* the component is removed: the cleanup runs, the refs and the state of
\* the instance are gone
UnmountHook(h) ==
  LET h1 == EffectCleanup(h)
  IN [h1 EXCEPT !.mounted = FALSE, !.canvas = FALSE, !.rendererRef = NoRenderer,
                !.isInitialized = FALSE,
                !.returned = [renderer |-> NoRenderer, isInitialized |-> FALSE]]

\* a 'resize' event of the given size: every registered handleResize runs
\* and, unless rendererRef is empty, resizes the renderer in it
HandleResize(h, size) ==
  LET h1 == [h EXCEPT !.window = size]
  IN IF h1.listeners # {} /\ h1.rendererRef # NoRenderer
     THEN [h1 EXCEPT !.size = size]
     ELSE h1

(***************************************************************************)
(* SolarScene.tsx: the component and its handlers.                         *)
(***************************************************************************)
\* the light SolarScene creates
InitialLight ==
  [position |-> [x |-> Rat(-1500, 1), y |-> Rat(200, 1), z |-> Rat(100, 1)],
   target |-> [x |-> Zero, y |-> Zero, z |-> Zero],
   intensity |-> 5]

Init ==
  /\ loaded = FALSE
  /\ dateInput = "2024-06-21"
  /\ timeSlider = "750"
  /\ ghiInput = "7"
  /\ light = InitialLight
  /\ sunPosition = [azimuth |-> Angle(5, 0), altitude |-> Angle(5, 0)]
  /\ material = [b \in Buildings |-> WhiteMaterial]
  /\ originalMaterials = << >>
  /\ highlightedBuilding = Null
  /\ colorAttr = [b \in Buildings |-> [present |-> FALSE]]
  /\ infoCard = [display |-> "css"]
  /\ hook = HookStart
  /\ lastCall = [op |-> "init"]

\* write a world back into the variables
Commit(w) ==
  /\ light' = w.light
  /\ sunPosition' = w.sunPosition
  /\ material' = w.material
  /\ originalMaterials' = w.originalMaterials
  /\ highlightedBuilding' = w.highlightedBuilding
  /\ colorAttr' = w.colorAttr
  /\ infoCard' = w.infoCard

\* the effect on [date, time, loaded]: updateSunPosition(lightRef.current)
\* once the model is loaded
SunEffect(isLoaded, dom) ==
  IF isLoaded
  THEN \E sunPos \in SunCalcGetPosition(SunDate(dom)) :
         \E r \in {UpdateSunPosition(World, dom, sunPos)} :
            /\ Commit(r.w)
            /\ lastCall' = [op |-> "updateSunPosition", sunPos |-> sunPos,
                            ret |-> r.ret, alert |-> r.alert]
  ELSE /\ Commit(World)
       /\ lastCall' = [op |-> "input"]

\* the GLTF loader's callback: setLoaded(true), then the effects run
ModelLoaded ==
  /\ ~loaded
  /\ loaded' = TRUE
  /\ UNCHANGED <<dateInput, timeSlider, ghiInput, hook>>
  /\ SunEffect(TRUE, Dom)

\* handleDateChange, then the effect on [date, time, loaded]
ChangeDate ==
  \E v \in DateValues \ {dateInput} :
    /\ dateInput' = v
    /\ UNCHANGED <<loaded, timeSlider, ghiInput, hook>>
    /\ SunEffect(loaded, [Dom EXCEPT !.dateInput = v])

\* handleTimeChange, then the effect on [date, time, loaded]
ChangeTime ==
  \E v \in TimeValues \ {timeSlider} :
    /\ timeSlider' = v
    /\ UNCHANGED <<loaded, dateInput, ghiInput, hook>>
    /\ SunEffect(loaded, [Dom EXCEPT !.timeSlider = v])

\* handleGHIChange
ChangeGHI ==
  \E v \in GhiValues \ {ghiInput} :
    /\ ghiInput' = v
    /\ UNCHANGED <<loaded, dateInput, timeSlider, hook>>
    /\ Commit(World)
    /\ lastCall' = [op |-> "input"]

\* the ray results the estimator can get for a building
RayResults(b) == [1..NumFaces(Geometry(b)) -> RaySamples]

\* handleClick on the canvas: onBuildingClick with the loaded buildings
Click ==
  /\ loaded
  /\ \E hit \in Buildings \cup {NoHit} :
       \E rays \in (IF hit = NoHit THEN {<< >>} ELSE RayResults(hit)) :
         \E r \in {OnBuildingClick(World, Dom, hit, rays)} :
            /\ Commit(r.w)
            /\ lastCall' = [op |-> "onBuildingClick", hit |-> hit, calc |-> r.calc]
  /\ UNCHANGED <<loaded, dateInput, timeSlider, ghiInput, hook>>

Next == ModelLoaded \/ ChangeDate \/ ChangeTime \/ ChangeGHI \/ Click

Spec == Init /\ [][Next]_vars

(***************************************************************************)
(* The estimators called on their own.                                     *)
(***************************************************************************)
\* calculateRooftopArea(building, light, scene) called directly
CalculateCall ==
  /\ \E b \in Meshes :
       \E rays \in RayResults(b) :
         \E r \in {CalculateRooftopArea(World, Dom, b, rays)} :
            /\ Commit(r.w)
            /\ lastCall' = [op |-> "calculateRooftopArea", building |-> b,
                            rays |-> rays, calc |-> r.out]
  /\ UNCHANGED <<loaded, dateInput, timeSlider, ghiInput, hook>>

NextPV == ChangeDate \/ ChangeGHI \/ CalculateCall

SpecPV == Init /\ [][NextPV]_vars

\* the variables of the scene, which a component using useThree leaves alone
sceneVars == <<loaded, dateInput, timeSlider, ghiInput, light, sunPosition, material,
               originalMaterials, highlightedBuilding, colorAttr, infoCard, lastCall>>

\* a component that uses useThree is mounted; it renders the canvas of
\* canvasRef or, for as long as it is mounted, does not
Mount ==
  /\ ~hook.mounted
  /\ hook.created < MaxRenderers
  /\ \E options \in UseThreeOptions, canvas \in BOOLEAN :
       hook' = UseThree([hook EXCEPT !.mounted = TRUE], options, canvas, TRUE)
  /\ UNCHANGED sceneVars

\* the component renders again, with the same or with other options
Rerender ==
  /\ hook.mounted
  /\ hook.created < MaxRenderers
  /\ \E options \in UseThreeOptions :
       hook' = UseThree(hook, options, hook.canvas, FALSE)
  /\ UNCHANGED sceneVars

\* the component is unmounted
Unmount ==
  /\ hook.mounted
  /\ hook' = UnmountHook(hook)
  /\ UNCHANGED sceneVars

\* the window is resized
WindowResize ==
  /\ \E size \in WindowSizes \ {hook.window} : hook' = HandleResize(hook, size)
  /\ UNCHANGED sceneVars

NextHook == Mount \/ Rerender \/ Unmount \/ WindowResize

SpecHook == Init /\ [][NextHook]_vars

\* a point, a sample count and the intersections of each of its rays
InitProbe ==
  /\ loaded = FALSE
  /\ dateInput = "2024-06-21"
  /\ timeSlider = "750"
  /\ ghiInput = "7"
  /\ light = InitialLight
  /\ sunPosition = [azimuth |-> Angle(5, 0), altitude |-> Angle(5, 0)]
  /\ material = [b \in Buildings |-> WhiteMaterial]
  /\ originalMaterials = << >>
  /\ highlightedBuilding = Null
  /\ colorAttr = [b \in Buildings |-> [present |-> FALSE]]
  /\ infoCard = [display |-> "css"]
  /\ hook = HookStart
  /\ \E numRays \in 1..MaxRays :
       \E rays \in [1..numRays -> ProbeHitLists] :
         lastCall = [op |-> "probe", rays |-> rays, numRays |-> numRays]

\* isPointInShadow(point, light, scene, numRays) called on the probe
ProbeCall ==
  /\ lastCall.op = "probe"
  /\ lastCall' = [op |-> "isPointInShadow", rays |-> lastCall.rays,
                  numRays |-> lastCall.numRays,
                  ret |-> IsPointInShadow(lastCall.rays, lastCall.numRays)]
  /\ UNCHANGED <<hook, loaded, dateInput, timeSlider, ghiInput, light, sunPosition, material,
                 originalMaterials, highlightedBuilding, colorAttr, infoCard>>

SpecProbe == InitProbe /\ [][ProbeCall]_vars

(***************************************************************************)
(* Properties.                                                             *)
(***************************************************************************)
\* the buildings that carry the highlight material
HighlightedSet == {b \in Buildings : material[b].color = HighlightMaterial.color}

\* C1: after any sequence of clicks at most one building carries the
\* highlight material, and it is the building in the highlightedBuilding slot
C1_SingleHighlight ==
  /\ Cardinality(HighlightedSet) <= 1
  /\ HighlightedSet = (IF highlightedBuilding = Null THEN {} ELSE {highlightedBuilding})

\* Mesh 1 is selected by a click after Mesh 2 had been selected
C1_Witness ==
  /\ lastCall.op = "onBuildingClick"
  /\ lastCall.hit = "Mesh 1"
  /\ highlightedBuilding = "Mesh 1"
  /\ colorAttr["Mesh 2"].present

\* C2 as stated: every building that was selected and is no longer has the
\* material, the vertex-colour flag and the colour buffer it had before it
\* was first highlighted (the white material, no colour attribute)
C2_StateRestored ==
  \A b \in Buildings \ {highlightedBuilding} :
    /\ material[b] = WhiteMaterial
    /\ colorAttr[b] = [present |-> FALSE]

\* C2 as amended: every building that was selected and is no longer has the
\* material it had before it was first highlighted, vertex-colour flag
\* included, and only the selected building has the highlight material; the
\* colour buffer is not part of what is restored
C2_MaterialRestored ==
  /\ \A b \in Buildings \ {highlightedBuilding} : material[b] = WhiteMaterial
  /\ highlightedBuilding # Null => material[highlightedBuilding] # WhiteMaterial

\* Mesh 2 is selected after Mesh 1, whose colour buffer is still there
C2_Witness ==
  /\ highlightedBuilding = "Mesh 2"
  /\ colorAttr["Mesh 1"].present
  /\ material["Mesh 1"] = WhiteMaterial
  /\ material["Mesh 2"].vertexColors

\* C3: when the date or the time input is absent or invalid (the date handed
\* to SunCalc is no valid time), updateSunPosition returns null and leaves
\* the light and the global sunPosition as they were
C3_InvalidInputNoUpdate ==
  [][(/\ lastCall'.op = "updateSunPosition"
      /\ ~NewDateTime(dateInput', TimeInput(timeSlider')).valid)
     => (/\ lastCall'.ret = NullValue
         /\ light' = light
         /\ sunPosition' = sunPosition)]_vars

\* C4: a click on a building whose geometry has no index gets no values from
\* the estimator and changes neither that building's material or colour
\* attribute nor the selection slot nor the building selected before
C4_NonIndexedUntouched ==
  [][(/\ lastCall'.op = "onBuildingClick"
      /\ lastCall'.hit \in Buildings
      /\ ~Geometry(lastCall'.hit).index.present)
     => (/\ lastCall'.calc.ret = << >>
         /\ material' = material
         /\ colorAttr' = colorAttr
         /\ highlightedBuilding' = highlightedBuilding
         /\ originalMaterials' = originalMaterials)]_vars

\* C5: the intensity is never anything but 0 or 5, and after every call of
\* updateSunPosition that got a sun position it is 0 for an altitude below
\* zero and 5 otherwise
C5_IntensityPolicy ==
  /\ light.intensity \in {0, 5}
  /\ (/\ lastCall.op = "updateSunPosition"
      /\ lastCall.ret # NullValue
      /\ lastCall.sunPos.altitude # NaNAngle)
     => light.intensity = (IF lastCall.sunPos.altitude.s < 0 THEN 0 ELSE 5)

\* a call with the sun below the horizon has switched the light off
C5_Witness ==
  /\ lastCall.op = "updateSunPosition"
  /\ lastCall.ret # NullValue
  /\ lastCall.sunPos.altitude.s < 0
  /\ light.intensity = 0

\* a direct call of calculateRooftopArea on an indexed mesh has returned
CalcReturned == lastCall.op = "calculateRooftopArea" /\ lastCall.calc.indexed

\* the area of triangle f of a geometry
AreaOfFace(geometry, f) ==
  LET face == FaceOf(geometry, f)
  IN CalculateTriangleArea(face.v1, face.v2, face.v3)

\* the area of those of the first n triangles whose entry has a type in types
RECURSIVE AreaOfTypes(_, _, _, _)
AreaOfTypes(geometry, entries, n, types) ==
  IF n = 0 THEN Zero
  ELSE RAdd(AreaOfTypes(geometry, entries, n - 1, types),
            IF entries[n].type \in types THEN AreaOfFace(geometry, n) ELSE Zero)

\* C6: one pass gives exactly one entry per triangle, typed Rooftop or
\* Vertical; each total is the area of the triangles of its type, and
\* totalArea is their sum and the area of all triangles
C6_AreaPartition ==
  CalcReturned =>
    LET geometry == Geometry(lastCall.building)
        entries == lastCall.calc.ret
        agg == lastCall.calc.aggregates
        n == NumFaces(geometry)
    IN /\ Len(entries) = n
       /\ \A f \in 1..n :
            /\ entries[f].type \in {"Rooftop", "Vertical"}
            /\ <<entries[f].a, entries[f].b, entries[f].c>> =
                 <<FaceOf(geometry, f).a, FaceOf(geometry, f).b, FaceOf(geometry, f).c>>
       /\ agg.totalRooftopArea = AreaOfTypes(geometry, entries, n, {"Rooftop"})
       /\ agg.totalVerticalArea = AreaOfTypes(geometry, entries, n, {"Vertical"})
       /\ agg.totalArea = RAdd(agg.totalRooftopArea, agg.totalVerticalArea)
       /\ agg.totalArea = AreaOfTypes(geometry, entries, n, {"Rooftop", "Vertical"})

\* a pass over Mesh 1 found one triangle of each type, 8 units in all
C6_Witness ==
  /\ CalcReturned
  /\ lastCall.building = "Mesh 1"
  /\ lastCall.calc.ret[1].type = "Rooftop"
  /\ lastCall.calc.ret[2].type = "Vertical"
  /\ lastCall.calc.aggregates.totalArea = Rat(8, 1)

\* the rays among the first n that hit something other than the 'Sky' object
ShadowedRaySet(rays, n) ==
  {i \in 1..n : \E j \in 1..Len(rays[i]) : rays[i][j] # "Sky"}

\* C7: isPointInShadow returns the number of rays with at least one hit on
\* an object other than 'Sky', each such ray counted once, over the sample
\* count; the value lies in [0, 1]
C7_ShadowFraction ==
  lastCall.op = "isPointInShadow" =>
    /\ lastCall.ret =
         Rat(Cardinality(ShadowedRaySet(lastCall.rays, lastCall.numRays)), lastCall.numRays)
    /\ IsFinite(lastCall.ret)
    /\ ~RLt(lastCall.ret, Zero)
    /\ ~RLt(One, lastCall.ret)

\* two rays, one that meets only the sky and one with two valid hits: 1/2
C7_Witness ==
  /\ lastCall.op = "isPointInShadow"
  /\ lastCall.numRays = 2
  /\ lastCall.rays[1] = <<"Sky">>
  /\ lastCall.rays[2] = <<"Mesh 2", "", "Sky">>
  /\ lastCall.ret = Rat(1, 2)

\* C8: the value of every triangle, Rooftop or Vertical, is
\* ghi * area * (1 - shadowFraction) * 0.15 with the shadow fraction of the
\* rays cast from that triangle
C8_PerFaceValue ==
  CalcReturned =>
    LET geometry == Geometry(lastCall.building)
        entries == lastCall.calc.ret
        ghi == lastCall.calc.GHI
    IN \A f \in 1..Len(entries) :
         LET area == AreaOfFace(geometry, f)
             lit == NumRays - Cardinality(ShadowedRaySet(lastCall.rays[f], NumRays))
         IN entries[f].bipvValue =
              Rat(ghi.n * area.n * lit * 15, ghi.d * area.d * NumRays * 100)

\* the roof of Mesh 1 (area 4) with GHI 5.5 and no occluder gets 3.3, next
\* to a wall that is partly shadowed
C8_Witness ==
  /\ CalcReturned
  /\ lastCall.building = "Mesh 1"
  /\ lastCall.calc.GHI = Rat(55, 10)
  /\ lastCall.calc.shadowFractions[1] = Zero
  /\ lastCall.calc.ret[1].type = "Rooftop"
  /\ lastCall.calc.ret[1].bipvValue = Rat(33, 10)
  /\ lastCall.calc.ret[2].type = "Vertical"
  /\ RLt(Zero, lastCall.calc.shadowFractions[2])

\* C9: a click computed while the sun is below the horizon (light intensity
\* 0) gives 0 for every per-face value and for the total PV value
C9_NightGivesZero ==
  (/\ lastCall.op = "onBuildingClick"
   /\ lastCall.hit # NoHit
   /\ lastCall.calc.indexed
   /\ sunPosition.altitude # NaNAngle
   /\ sunPosition.altitude.s < 0
   /\ light.intensity = 0)
  => (/\ \A f \in 1..Len(lastCall.calc.ret) : lastCall.calc.ret[f].bipvValue = Zero
      /\ lastCall.calc.aggregates.totalPVValue = Zero)

\* C10 as stated: a call of calculateRooftopArea changes no rendering state
\* and writes nothing into the display elements
C10_NoSideEffect ==
  [][lastCall'.op = "calculateRooftopArea"
     => UNCHANGED <<light, sunPosition, material, originalMaterials,
                    highlightedBuilding, colorAttr, infoCard>>]_vars

\* C10 as amended: a call of calculateRooftopArea changes no rendering state
\* (light, sun position, materials, colour attributes, selection); for an
\* indexed mesh it writes the aggregates into the info card and shows it,
\* for a mesh without an index it leaves the info card alone
C10_WritesInfoCardOnly ==
  [][lastCall'.op = "calculateRooftopArea"
     => (/\ UNCHANGED <<light, sunPosition, material, originalMaterials,
                        highlightedBuilding, colorAttr>>
         /\ IF lastCall'.calc.indexed
            THEN infoCard' =
                   [buildingName |-> lastCall'.building,
                    totalDaytime |-> ToFixed2(lastCall'.calc.totalDaytime),
                    totalArea |-> ToFixed2(lastCall'.calc.aggregates.totalArea),
                    rooftopArea |-> ToFixed2(lastCall'.calc.aggregates.totalRooftopArea),
                    shadowFraction |->
                      ToFixed2(lastCall'.calc.aggregates.totalShadowFraction),
                    shadowFractionRooftop |->
                      ToFixed2(lastCall'.calc.aggregates.averageShadowFractionRooftop),
                    pvValue |-> ToFixed2(lastCall'.calc.aggregates.totalPVValue),
                    pvValueRooftop |-> ToFixed2(lastCall'.calc.aggregates.pvValueRooftop),
                    display |-> "block"]
            ELSE infoCard' = infoCard)]_vars

\* a call on Mesh 1 has filled and shown the info card, the light untouched
C10_Witness ==
  /\ CalcReturned
  /\ lastCall.building = "Mesh 1"
  /\ infoCard.display = "block"
  /\ infoCard.buildingName = "Mesh 1"
  /\ infoCard.totalArea = 800
  /\ light = InitialLight

\* C11: the ratio getColorForValue interpolates with is a number in [0, 1]
\* for every face of a click, equal values (min = max) included, so the
\* colour of each of the three vertices of each face lies between the two
\* endpoint colours
C11_ColorOnSegment ==
  (lastCall.op = "onBuildingClick" /\ lastCall.hit # NoHit) =>
    LET entries == lastCall.calc.ret
        minBipv == MathMin(entries, Len(entries))
        maxBipv == MathMax(entries, Len(entries))
    IN \A f \in 1..Len(entries) :
         /\ IsFinite(ColorRatio(entries[f].bipvValue, minBipv, maxBipv))
         /\ ~RLt(ColorRatio(entries[f].bipvValue, minBipv, maxBipv), Zero)
         /\ ~RLt(One, ColorRatio(entries[f].bipvValue, minBipv, maxBipv))
         /\ \A v \in {entries[f].a, entries[f].b, entries[f].c} :
              LET color == colorAttr[lastCall.hit].array[v]
              IN /\ color.r = startColor.r
                 /\ color.b = startColor.b
                 /\ IsFinite(color.g)
                 /\ ~RLt(color.g, endColor.g)
                 /\ ~RLt(startColor.g, color.g)

\* C12: a triangle of zero area gets the value 0 and adds nothing to the
\* area totals, and the aggregates of a mesh with such triangles are numbers,
\* also when every triangle of the mesh has zero area
C12_DegenerateIsZero ==
  CalcReturned =>
    LET geometry == Geometry(lastCall.building)
        entries == lastCall.calc.ret
        agg == lastCall.calc.aggregates
    IN /\ \A f \in 1..Len(entries) :
            AreaOfFace(geometry, f) = Zero => entries[f].bipvValue = Zero
       /\ IsFinite(agg.totalArea)
       /\ IsFinite(agg.totalShadowFraction)
       /\ IsFinite(agg.averageShadowFractionRooftop)
       /\ IsFinite(agg.totalPVValue)
       /\ IsFinite(agg.pvValueRooftop)

\* the sum of the values of the first n entries
RECURSIVE SumOfValues(_, _)
SumOfValues(entries, n) ==
  IF n = 0 THEN Zero ELSE RAdd(SumOfValues(entries, n - 1), entries[n].bipvValue)

\* the sum of shadow fraction times area over the first n triangles
RECURSIVE WeightedShadow(_, _, _)
WeightedShadow(geometry, shadowFractions, n) ==
  IF n = 0 THEN Zero
  ELSE RAdd(WeightedShadow(geometry, shadowFractions, n - 1),
            RMul(shadowFractions[n], AreaOfFace(geometry, n)))

\* C13: on a mesh of positive total area totalShadowFraction is the
\* area-weighted mean of the per-face shadow fractions and lies in [0, 1],
\* totalPVValue is ghi * totalArea * (1 - totalShadowFraction) * 0.15, and
\* that is the sum of the per-face values
C13_TotalIsSumOfFaces ==
  (CalcReturned /\ RLt(Zero, lastCall.calc.aggregates.totalArea)) =>
    LET geometry == Geometry(lastCall.building)
        entries == lastCall.calc.ret
        agg == lastCall.calc.aggregates
        n == NumFaces(geometry)
    IN /\ agg.totalShadowFraction =
            RDiv(WeightedShadow(geometry, lastCall.calc.shadowFractions, n), agg.totalArea)
       /\ ~RLt(agg.totalShadowFraction, Zero)
       /\ ~RLt(One, agg.totalShadowFraction)
       /\ agg.totalPVValue =
            RMul(RMul(RMul(lastCall.calc.GHI, agg.totalArea),
                      RSub(One, agg.totalShadowFraction)), Rat(15, 100))
       /\ agg.totalPVValue = SumOfValues(entries, n)

\* Mesh 1 with GHI 7, the roof lit and the wall half shadowed: the mean
\* shadow fraction is 1/4 and the total 6.3 = 4.2 + 2.1
C13_Witness ==
  /\ CalcReturned
  /\ lastCall.building = "Mesh 1"
  /\ lastCall.calc.GHI = Rat(7, 1)
  /\ lastCall.calc.shadowFractions = <<Zero, Rat(1, 2)>>
  /\ lastCall.calc.aggregates.totalShadowFraction = Rat(1, 4)
  /\ lastCall.calc.ret[1].bipvValue = Rat(42, 10)
  /\ lastCall.calc.ret[2].bipvValue = Rat(21, 10)
  /\ lastCall.calc.aggregates.totalPVValue = Rat(63, 10)

\* C14: a click whose pick ray hits no building leaves the selection slot,
\* the saved materials, every material and colour buffer, the info card and
\* the light as they were, and runs no estimation
C14_MissChangesNothing ==
  [][(lastCall'.op = "onBuildingClick" /\ lastCall'.hit = NoHit) =>
       /\ UNCHANGED <<highlightedBuilding, originalMaterials, material, colorAttr,
                      infoCard, light, sunPosition>>
       /\ lastCall'.calc = NullValue]_vars

\* a click hits nothing while Mesh 1 is selected, coloured and shown in the
\* info card
C14_Witness ==
  /\ lastCall.op = "onBuildingClick"
  /\ lastCall.hit = NoHit
  /\ highlightedBuilding = "Mesh 1"
  /\ material["Mesh 1"].color = HighlightMaterial.color
  /\ colorAttr["Mesh 1"].present
  /\ infoCard.display = "block"
  /\ infoCard.buildingName = "Mesh 1"

\* C15: at most one renderer is live and at most one 'resize' listener is
\* registered at any time, and when the hook has reported isInitialized =
\* true the renderer it returned with it is the one in rendererRef, not
\* null and not disposed
C15_ReturnedRendererLive ==
  /\ Cardinality(hook.live) <= 1
  /\ Cardinality(hook.listeners) <= 1
  /\ (hook.mounted /\ hook.returned.isInitialized) =>
       /\ hook.returned.renderer # NoRenderer
       /\ hook.returned.renderer = hook.rendererRef
       /\ hook.returned.renderer \in hook.live

====
